---- MODULE Spec2Model ----
(***************************************************************************)
(* Model of myproject/myapp/views.py: the view function menu(request).     *)
(*                                                                         *)
(*   menu_items = Menu.objects.all()          (line 8)                     *)
(*   items_dict = {'menu': menu_items}        (line 11)                    *)
(*   return render(request, 'menu.html', items_dict)   (line 14)           *)
(*                                                                         *)
(* Menu.objects.all() builds a QuerySet; a QuerySet runs its SELECT only   *)
(* when it is first iterated and then keeps the rows in its result cache.  *)
(* render() first resolves the template name, then renders the template    *)
(* with the context and the request, and wraps the output in an            *)
(* HttpResponse of status 200.  The template iterates the context variable *)
(* "menu", which is where the SELECT is executed; menu() sets no timeout,  *)
(* so a SELECT that never answers leaves the invocation blocked.  The      *)
(* request is handed to the renderer, so a template can read it.  Several  *)
(* invocations run concurrently, and another actor may write the Menu      *)
(* table at any moment.                                                    *)
(***************************************************************************)
EXTENDS Integers, Sequences, FiniteSets, TLC

\* ------------------------------------------------------------------ bounds
MaxStore == 2                       \* longest Menu table that is modelled

Records  == {"Coffee", "Tea"}       \* the Menu rows; a row is stored at most once
Workers  == {"w1", "w2"}            \* concurrent invocations of menu()
Requests == [q : Records]           \* request values: a query string ?q=...

\* What the file menu.html can be: a listing of the context variable "menu",
\* or such a listing that also prints the request's query string (the request
\* is in the template context because render() is given the request).
Templates == {"list", "list_with_query"}

Range(s) == {s[n] : n \in DOMAIN s}

RECURSIVE SeqsUpTo(_)
SeqsUpTo(n) ==
    IF n = 0 THEN {<<>>}
    ELSE LET shorter == SeqsUpTo(n - 1)
         IN  shorter \cup {Append(s, r) : s \in {t \in shorter : Len(t) = n - 1},
                                          r \in Records}

\* A row has its own primary key, so no row occurs twice in the table.
NoRowTwice(s) == Cardinality(Range(s)) = Len(s)

Stores == {s \in SeqsUpTo(MaxStore) : NoRowTwice(s)}   \* contents of the Menu table

\* ------------------------------------------------------------------- state
VARIABLES
    store,        \* the Menu table, in the order a SELECT returns it
    menu_html,    \* the template file that the name 'menu.html' resolves to
    pc,           \* per invocation: position in menu()
    request,      \* per invocation: the request argument
    callStore,    \* per invocation: the table as it was when menu() was entered
    menu_items,   \* per invocation: local menu_items (a QuerySet)
    items_dict,   \* per invocation: local items_dict
    context,      \* per invocation: the context as the renderer consumed it
    response,     \* per invocation: the returned HttpResponse
    exception,    \* per invocation: the exception that left menu()
    queries,      \* per invocation: SELECTs issued against the table
    renders       \* per invocation: calls of render()

locals == <<pc, request, callStore, menu_items, items_dict, context,
            response, exception, queries, renders>>
vars   == <<store, menu_html, pc, request, callStore, menu_items, items_dict, context,
            response, exception, queries, renders>>

\* ------------------------------------------------------- values and helpers
NoRequest   == [q |-> "none"]
NoQuerySet  == [query |-> "none", evaluated |-> FALSE, rows |-> <<>>]
NoDict      == [k \in {} |-> NoQuerySet]
NoContext   == [k \in {} |-> <<>>]
NoResponse  == [status |-> 0, body |-> <<>>]
NoException == "None"
OperationalError     == "OperationalError"
TemplateDoesNotExist == "TemplateDoesNotExist"

\* second argument of render(), line 14  (TemplateNameIndex: another name)
TemplateNameIndex == "index.html"
TemplateName == "menu.html"
ContextKey   == "menu"              \* key of items_dict, line 11
StatusOK     == 200                 \* HttpResponse default status

\* Menu.objects.all(): an unevaluated QuerySet selecting every row.
\* (MenuObjectsFilter: Menu.objects.filter(name="Coffee") in its place.)
MenuObjectsFilter ==
    [query |-> "Coffee", evaluated |-> FALSE, rows |-> <<>>]
MenuObjectsAll ==
    [query |-> "all", evaluated |-> FALSE, rows |-> <<>>]

\* The rows a SELECT for the given query returns from table s.
RunQuery(query, s) ==
    IF query = "all" THEN s ELSE SelectSeq(s, LAMBDA r : r = query)

\* Iterating a QuerySet: the first iteration runs the SELECT and fills the
\* result cache, later iterations read the cache.
Evaluated(qs, s) ==
    IF qs.evaluated THEN qs
    ELSE [query |-> qs.query, evaluated |-> TRUE, rows |-> RunQuery(qs.query, s)]

\* items_dict = {'menu': menu_items}
ItemsDict(qs) ==
    [k \in {ContextKey} |-> qs]

\* Rendering template file tpl, found under name, with the request and the
\* context: one line naming the document, a line with the request's query
\* string if the template prints it, then one line for every element of the
\* context variable "menu", in order.  A variable that is missing from the
\* context renders as nothing.
RenderTemplate(tpl, req, name, ctx) ==
    LET rows == IF ContextKey \in DOMAIN ctx THEN ctx[ContextKey] ELSE <<>>
        head == <<  <<"template", name>>  >>
        qry  == IF tpl = "list_with_query" THEN <<  <<"request", req.q>>  >> ELSE <<>>
    IN  head \o qry \o [n \in 1..Len(rows) |-> <<"item", rows[n]>>]

\* HttpResponse(content): render() leaves the status at its default.
HttpResponse(content) == [status |-> StatusOK, body |-> content]

\* menu() has no try/except: an exception of a collaborator leaves the
\* function as it is, and nothing is returned.
\* (Swallow: the call wrapped in try/except that answers with an empty page.)
Swallow(exc) ==
    [pc |-> "returned", exception |-> exc, response |-> HttpResponse(<<>>)]
Propagate(exc) ==
    [pc |-> "raised", exception |-> exc, response |-> NoResponse]

\* -------------------------------------------------------------------- Init
Init ==
    /\ store \in Stores
    /\ menu_html \in Templates
    /\ pc         = [w \in Workers |-> "idle"]
    /\ request    = [w \in Workers |-> NoRequest]
    /\ callStore  = [w \in Workers |-> <<>>]
    /\ menu_items = [w \in Workers |-> NoQuerySet]
    /\ items_dict = [w \in Workers |-> NoDict]
    /\ context    = [w \in Workers |-> NoContext]
    /\ response   = [w \in Workers |-> NoResponse]
    /\ exception  = [w \in Workers |-> NoException]
    /\ queries    = [w \in Workers |-> 0]
    /\ renders    = [w \in Workers |-> 0]

\* ----------------------------------------------------------------- actions
\* The serving framework calls menu(request).
Invoke(w) ==
    /\ pc[w] = "idle"
    /\ \E req \in Requests : request' = [request EXCEPT ![w] = req]
    /\ pc' = [pc EXCEPT ![w] = "line8"]
    /\ callStore' = [callStore EXCEPT ![w] = store]
    /\ UNCHANGED <<store, menu_html, menu_items, items_dict, context, response,
                   exception, queries, renders>>

\* FetchAllEager: menu_items = list(Menu.objects.all()), the SELECT runs here.
FetchAllEager(w) ==
    /\ pc[w] = "line8"
    /\ menu_items' = [menu_items EXCEPT ![w] = Evaluated(MenuObjectsAll, store)]
    /\ pc' = [pc EXCEPT ![w] = "line11"]
    /\ UNCHANGED <<store, menu_html, request, callStore, items_dict, context, response,
                   exception, queries, renders>>

\* FetchAllByRequest: Menu.objects.filter(name=request.GET['q']).
FetchAllByRequest(w) ==
    /\ pc[w] = "line8"
    /\ menu_items' = [menu_items EXCEPT ![w] =
                         [MenuObjectsAll EXCEPT !.query = request[w].q]]
    /\ pc' = [pc EXCEPT ![w] = "line11"]
    /\ UNCHANGED <<store, menu_html, request, callStore, items_dict, context, response,
                   exception, queries, renders>>

\* FetchAllAndDelete: Menu.objects.all().delete(), a write in place of the read.
FetchAllAndDelete(w) ==
    /\ pc[w] = "line8"
    /\ menu_items' = [menu_items EXCEPT ![w] = MenuObjectsAll]
    /\ store' = <<>>
    /\ pc' = [pc EXCEPT ![w] = "line11"]
    /\ UNCHANGED <<menu_html, request, callStore, items_dict, context, response,
                   exception, queries, renders>>

\* FetchAllMemo: the evaluated query set of an earlier call kept at module
\* level and used again by a later call.
FetchAllMemo(w) ==
    /\ pc[w] = "line8"
    /\ menu_items' = [menu_items EXCEPT ![w] =
                         IF \E v \in Workers : menu_items[v].evaluated
                         THEN menu_items[CHOOSE v \in Workers : menu_items[v].evaluated]
                         ELSE MenuObjectsAll]
    /\ pc' = [pc EXCEPT ![w] = "line11"]
    /\ UNCHANGED <<store, menu_html, request, callStore, items_dict, context, response,
                   exception, queries, renders>>

\* line 8: menu_items = Menu.objects.all()
FetchAll(w) ==
    /\ pc[w] = "line8"
    /\ menu_items' = [menu_items EXCEPT ![w] = MenuObjectsAll]
    /\ pc' = [pc EXCEPT ![w] = "line11"]
    /\ UNCHANGED <<store, menu_html, request, callStore, items_dict, context, response,
                   exception, queries, renders>>

\* BuildDictShared: items_dict kept at module level and rebuilt by every call,
\* so that a call in progress loses the entry another call is about to set.
BuildDictShared(w) ==
    /\ pc[w] = "line11"
    /\ items_dict' = [v \in Workers |->
                         IF v = w THEN ItemsDict(menu_items[w]) ELSE NoDict]
    /\ pc' = [pc EXCEPT ![w] = "line14"]
    /\ UNCHANGED <<store, menu_html, request, callStore, menu_items, context, response,
                   exception, queries, renders>>

\* line 11: items_dict = {'menu': menu_items}
BuildDict(w) ==
    /\ pc[w] = "line11"
    /\ items_dict' = [items_dict EXCEPT ![w] = ItemsDict(menu_items[w])]
    /\ pc' = [pc EXCEPT ![w] = "line14"]
    /\ UNCHANGED <<store, menu_html, request, callStore, menu_items, context, response,
                   exception, queries, renders>>

\* line 14, first half: render() is called and resolves the template name.
\* The lookup either finds the template or raises TemplateDoesNotExist.
RenderCall(w) ==
    /\ pc[w] = "line14"
    /\ renders' = [renders EXCEPT ![w] = @ + 1]
    /\ \E found \in BOOLEAN :
         IF found
         THEN /\ pc' = [pc EXCEPT ![w] = "rendering"]
              /\ UNCHANGED <<exception, response>>
         ELSE LET out == Propagate(TemplateDoesNotExist)
              IN  /\ pc' = [pc EXCEPT ![w] = out.pc]
                  /\ exception' = [exception EXCEPT ![w] = out.exception]
                  /\ response' = [response EXCEPT ![w] = out.response]
    /\ UNCHANGED <<store, menu_html, request, callStore, menu_items, items_dict,
                   context, queries>>

\* line 14, second half: the template is rendered.  It iterates the context
\* variable "menu", which runs the QuerySet's SELECT against the table as it
\* is now; the SELECT either returns the rows or raises OperationalError.
\* On success render() returns HttpResponse(content) and menu() returns it.
TemplateRender(w) ==
    /\ pc[w] = "rendering"
    /\ queries' = [queries EXCEPT ![w] = @ + 1]
    /\ \E ok \in BOOLEAN :
         IF ok
         THEN LET done == [k \in DOMAIN items_dict[w] |->
                              Evaluated(items_dict[w][k], store)]
                  ctx  == [k \in DOMAIN done |-> done[k].rows]
              IN  /\ items_dict' = [items_dict EXCEPT ![w] = done]
                  /\ menu_items' = [menu_items EXCEPT ![w] =
                                       Evaluated(menu_items[w], store)]
                  /\ context' = [context EXCEPT ![w] = ctx]
                  /\ response' = [response EXCEPT ![w] =
                                     HttpResponse(RenderTemplate(menu_html, request[w],
                                                                 TemplateName, ctx))]
                  /\ pc' = [pc EXCEPT ![w] = "returned"]
                  /\ UNCHANGED exception
         ELSE LET out == Propagate(OperationalError)
              IN  /\ pc' = [pc EXCEPT ![w] = out.pc]
                  /\ exception' = [exception EXCEPT ![w] = out.exception]
                  /\ response' = [response EXCEPT ![w] = out.response]
                  /\ UNCHANGED <<items_dict, menu_items, context>>
    /\ UNCHANGED <<store, menu_html, request, callStore, renders>>

\* The caller has taken the response or the exception; the frame of menu()
\* is gone and the worker can serve the next request.
Complete(w) ==
    /\ pc[w] \in {"returned", "raised"}
    /\ pc'         = [pc EXCEPT ![w] = "idle"]
    /\ request'    = [request EXCEPT ![w] = NoRequest]
    /\ callStore'  = [callStore EXCEPT ![w] = <<>>]
    /\ menu_items' = [menu_items EXCEPT ![w] = NoQuerySet]
    /\ items_dict' = [items_dict EXCEPT ![w] = NoDict]
    /\ context'    = [context EXCEPT ![w] = NoContext]
    /\ response'   = [response EXCEPT ![w] = NoResponse]
    /\ exception'  = [exception EXCEPT ![w] = NoException]
    /\ queries'    = [queries EXCEPT ![w] = 0]
    /\ renders'    = [renders EXCEPT ![w] = 0]
    /\ UNCHANGED <<store, menu_html>>

\* line 14, second half, when the SELECT never answers: menu() sets no
\* timeout, so the invocation stays inside render() for good.
QueryBlocks(w) ==
    /\ pc[w] = "rendering"
    /\ queries' = [queries EXCEPT ![w] = @ + 1]
    /\ pc' = [pc EXCEPT ![w] = "blocked"]
    /\ UNCHANGED <<store, menu_html, request, callStore, menu_items, items_dict,
                   context, response, exception, renders>>

\* Another actor (admin site, shell, another view) writes the Menu table.
StoreWrite ==
    /\ \E s \in Stores : s # store /\ store' = s
    /\ UNCHANGED <<menu_html, locals>>

Next ==
    \/ \E w \in Workers : Invoke(w)
    \/ \E w \in Workers : FetchAll(w)
    \/ \E w \in Workers : BuildDict(w)
    \/ \E w \in Workers : RenderCall(w)
    \/ \E w \in Workers : TemplateRender(w)
    \/ \E w \in Workers : QueryBlocks(w)
    \/ \E w \in Workers : Complete(w)
    \/ StoreWrite

Spec == Init /\ [][Next]_vars

\* The same program while nobody writes the table.
NextStatic ==
    \/ \E w \in Workers : Invoke(w)
    \/ \E w \in Workers : FetchAll(w)
    \/ \E w \in Workers : BuildDict(w)
    \/ \E w \in Workers : RenderCall(w)
    \/ \E w \in Workers : TemplateRender(w)
    \/ \E w \in Workers : QueryBlocks(w)
    \/ \E w \in Workers : Complete(w)

SpecStatic == Init /\ [][NextStatic]_vars

\* The interpreter runs every statement of a call that was started, the
\* template lookup answers (found or not), and the SELECT has one of its
\* three outcomes: rows, an exception, or no answer at all.
FairSpec ==
    /\ Spec
    /\ \A w \in Workers :
         /\ WF_vars(FetchAll(w))
         /\ WF_vars(BuildDict(w))
         /\ WF_vars(RenderCall(w))
         /\ WF_vars(TemplateRender(w) \/ QueryBlocks(w))

TypeOK ==
    /\ store \in Stores
    /\ pc \in [Workers -> {"idle", "line8", "line11", "line14", "rendering",
                           "blocked", "returned", "raised"}]
    /\ \A w \in Workers : queries[w] \in 0..1 /\ renders[w] \in 0..1

\* ------------------------------------------------------------------ claims
Returned(w) == pc[w] = "returned"
Raised(w)   == pc[w] = "raised"
Returns(w)  == pc[w] = "rendering" /\ pc'[w] = "returned"

\* C1: when query and render succeed, the renderer is handed a context whose
\* only key "menu" is bound to exactly the rows the table holds when it is
\* read, in the table's order: nothing dropped, added, duplicated, reordered.
C1_ContextIsStoreInOrder ==
    [][\A w \in Workers :
          Returns(w) => /\ DOMAIN context'[w] = {"menu"}
                        /\ context'[w]["menu"] = store]_vars

C1_Witness ==
    \E w \in Workers : /\ Returned(w)
                       /\ context[w]["menu"] = <<"Tea", "Coffee">>
                       /\ store = <<"Tea", "Coffee">>

\* C2: no step of an invocation of menu() changes the table; whenever the
\* table changes, no invocation has moved.
C2_HandlerNeverWritesStore ==
    [][(locals' # locals) => (store' = store)]_vars

C2_Witness ==
    \E w, v \in Workers : /\ Returned(w) /\ Raised(v)
                          /\ queries[w] = 1 /\ queries[v] = 1
                          /\ Len(store) = 2

C4_OkResponseOfMenuTemplate ==
    \A w \in Workers :
        Returned(w) => /\ response[w].status = 200
                       /\ DOMAIN context[w] = {"menu"}
                       /\ response[w].body =
                              RenderTemplate(menu_html, request[w], "menu.html", context[w])
                       /\ response[w].body[1] = <<"template", "menu.html">>

C4_Witness ==
    \E w \in Workers : /\ Returned(w)
                       /\ Len(response[w].body) = 3

\* C5: a failure of the table query leaves menu() as that same failure: the
\* invocation has raised, no response exists, and the table was queried once.
C5_QueryFailurePropagates ==
    \A w \in Workers :
        exception[w] = "OperationalError" =>
            /\ Raised(w)
            /\ response[w] = NoResponse
            /\ queries[w] = 1

C5_Witness ==
    \E w \in Workers : exception[w] = "OperationalError" /\ Raised(w)

\* C6: when the template name does not resolve, the step that fails ends the
\* invocation in TemplateDoesNotExist, returns no response and leaves the
\* table as it was.
C6_TemplateFailurePropagates ==
    [][\A w \in Workers :
          (pc[w] = "line14" /\ pc'[w] \notin {"line14", "rendering"}) =>
              /\ pc'[w] = "raised"
              /\ exception'[w] = "TemplateDoesNotExist"
              /\ response'[w] = NoResponse
              /\ store' = store]_vars

C6_Witness ==
    \E w \in Workers : /\ exception[w] = "TemplateDoesNotExist" /\ Raised(w)
                       /\ Len(store) > 0

\* C7 as stated: the returned document is derived from the table as it was
\* when menu() was called, whatever happens to the table meanwhile.
C7_Original ==
    \A w \in Workers :
        Returned(w) =>
            response[w].body = RenderTemplate(menu_html, request[w], "menu.html",
                                              [menu |-> callStore[w]])

\* C7 amended: the returned document is derived from the full table as it is
\* at the moment the renderer consumes the collection.
C7_DocumentOfStoreAtRender ==
    [][\A w \in Workers :
          Returns(w) =>
              response'[w].body = RenderTemplate(menu_html, request[w], "menu.html",
                                                 [menu |-> store])]_vars

C7_Witness ==
    \E w \in Workers : /\ Returned(w)
                       /\ callStore[w] = <<"Coffee">>
                       /\ context[w]["menu"] = <<"Tea", "Coffee">>

\* What one invocation returns when it runs alone against table s.
AloneResponse(tpl, req, s) ==
    [status |-> 200,
     body   |-> << <<"template", "menu.html">> >> \o
                (IF tpl = "list" THEN <<>> ELSE << <<"request", req.q>> >>) \o
                [n \in 1..Len(s) |-> <<"item", s[n]>>]]

\* C8: while the table does not change, every invocation returns, in every
\* interleaving with the others, the response it returns when run alone.
C8_ConcurrentAsAlone ==
    \A w \in Workers : Returned(w) =>
        response[w] = AloneResponse(menu_html, request[w], store)

C8_Witness ==
    \E w, v \in Workers : /\ w # v /\ Returned(w)
                          /\ pc[v] \in {"line14", "rendering"}
                          /\ Len(store) = 2

\* C9 as stated: the table is queried before render() is called, a query
\* failure precedes any template lookup, and the collection handed to the
\* renderer is already fetched.
C9_Original ==
    \A w \in Workers :
        /\ renders[w] > 0 => queries[w] > 0
        /\ pc[w] = "rendering" => items_dict[w]["menu"].evaluated
        /\ exception[w] = "OperationalError" => renders[w] = 0

\* C9 amended: the steps occur in the order build query set, build mapping,
\* render, return; the table is queried only after render() was called and
\* has resolved the template, so a template failure precedes any query, a
\* query failure follows the template lookup, and the collection handed to
\* the renderer is a query set that is not yet fetched.
C9_QueryInsideRender ==
    \A w \in Workers :
        /\ queries[w] > 0 => renders[w] > 0
        /\ pc[w] \in {"line14", "rendering"} =>
               /\ queries[w] = 0
               /\ DOMAIN items_dict[w] = {"menu"}
               /\ ~ items_dict[w]["menu"].evaluated
        /\ exception[w] = "TemplateDoesNotExist" => queries[w] = 0
        /\ exception[w] = "OperationalError" => renders[w] = 1
        /\ Returned(w) => /\ queries[w] = 1 /\ renders[w] = 1
                          /\ items_dict[w]["menu"].evaluated

C9_Witness ==
    \E w, v \in Workers :
        /\ exception[w] = "OperationalError" /\ renders[w] = 1
        /\ exception[v] = "TemplateDoesNotExist" /\ queries[v] = 0

\* What holds of every invocation at every moment: at most one query and one
\* render call, a response only without an exception, an exception only
\* without a response, and neither before the invocation has ended.
C10_Outcome ==
    \A w \in Workers :
        /\ queries[w] <= 1 /\ renders[w] <= 1
        /\ Returned(w) => /\ exception[w] = NoException
                          /\ response[w].status = 200
        /\ Raised(w) => /\ exception[w] # NoException
                        /\ response[w] = NoResponse
        /\ pc[w] \notin {"returned", "raised"} =>
               /\ exception[w] = NoException
               /\ response[w] = NoResponse

\* Nothing is left behind: whatever invocations ran before and whatever was
\* written to the table meanwhile, an invocation returns what a first
\* invocation returns for its request and the table as it is now.
C10_NoResidue ==
    \A w \in Workers :
        Returns(w) => response'[w] = AloneResponse(menu_html, request[w], store)

\* C10 as stated: an invocation ends in exactly one of a returned OK response
\* or a propagated failure, never both, after at most one query and one
\* render call, leaves nothing behind, and every invocation does end.
C10_Original ==
    /\ []C10_Outcome
    /\ [][C10_NoResidue]_vars
    /\ \A w \in Workers :
          (pc[w] = "line8") ~> (pc[w] \in {"returned", "raised"})

\* C10 amended: as stated, except that an invocation ends only if its store
\* query answers: menu() sets no timeout, so an invocation whose query never
\* answers stays blocked inside render(), without response or exception.
C10_OneOutcomeUnlessBlocked ==
    /\ []C10_Outcome
    /\ [][C10_NoResidue]_vars
    /\ \A w \in Workers :
          (pc[w] = "line8") ~> (pc[w] \in {"returned", "raised", "blocked"})
    /\ [][\A w \in Workers :
             (pc[w] = "rendering" /\ pc'[w] # "rendering") =>
                 pc'[w] \in {"returned", "raised", "blocked"}]_vars

\* Two invocations have returned different documents for the same request:
\* the table was written between the earlier one and the later one.
C10_Witness ==
    \E w, v \in Workers : /\ Returned(w) /\ Returned(v)
                          /\ request[w] = request[v]
                          /\ response[w] # response[v]
                          /\ queries[w] = 1 /\ renders[w] = 1
====
